---- MODULE Spec2Model ----
(***************************************************************************)
(* Model of convert.py: the questions.json -> questions_for_supabase.csv   *)
(* converter.                                                              *)
(*                                                                         *)
(* A text is a sequence of one-character strings.  A JSON value, as        *)
(* json.load returns it, is a record with a tag t and one payload field    *)
(* per Python type; the payload fields that a tag does not use are empty,  *)
(* so that any two values can be compared.  Numbers are the one-digit      *)
(* naturals.  A mapping is the sequence of its (key, value) pairs in       *)
(* insertion order, as a Python dict keeps them.                           *)
(***************************************************************************)
EXTENDS Integers, Sequences, FiniteSets, TLC

VARIABLES
    inFile,          \* questions.json on disk: [exists, valid, doc]
    outFile,         \* questions_for_supabase.csv on disk: [exists, rows]
    console,         \* the lines printed so far
    pc,              \* position of the script
    questions_data,  \* the value json.load returned
    items,           \* the sequence the for loop iterates
    idx,             \* number of loop iterations finished
    count,           \* rows written by the loop
    f_in,            \* the input file object: "none", "open" or "closed"
    f_out,           \* the output file object: "none", "open" or "closed"
    encIn,           \* argument of a lone format_pg_array_correctly call
    encOut,          \* its outcome
    encParsed,       \* what the array-literal parser reads back from it
    encPc            \* position of the lone call

vars == <<inFile, outFile, console, pc, questions_data, items, idx, count,
          f_in, f_out, encIn, encOut, encParsed, encPc>>

driverVars == <<inFile, outFile, console, pc, questions_data, items, idx, count,
                f_in, f_out>>
encVars == <<encIn, encOut, encParsed, encPc>>

----------------------------------------------------------------------------
(* Bounds *)

MaxRecords == 2     \* longest input array
MaxLen == 2         \* longest sequence handed to the encoder alone
MaxChars == 3       \* most characters in the strings of such a sequence, together

\* The characters strings are built from: the two the encoder escapes, the
\* three that structure an array literal, and an ordinary one.
Alphabet == {"a", "\\", "\"", ",", "{", "}"}

----------------------------------------------------------------------------
(* JSON values *)

Null == [t |-> "null", n |-> 0, s |-> <<>>, l |-> <<>>, m |-> <<>>]
Num(k) == [t |-> "num", n |-> k, s |-> <<>>, l |-> <<>>, m |-> <<>>]
Bool(b) == [t |-> "bool", n |-> IF b THEN 1 ELSE 0, s |-> <<>>, l |-> <<>>, m |-> <<>>]
Str(chars) == [t |-> "str", n |-> 0, s |-> chars, l |-> <<>>, m |-> <<>>]
List(elems) == [t |-> "list", n |-> 0, s |-> <<>>, l |-> elems, m |-> <<>>]
Map(pairs) == [t |-> "map", n |-> 0, s |-> <<>>, l |-> <<>>, m |-> pairs]

KV(key, val) == [k |-> key, v |-> val]
EmptyMap == Map(<<>>)
EmptyList == List(<<>>)

IsMap(v) == v.t = "map"

HasKey(q, key) == \E i \in 1..Len(q.m) : q.m[i].k = key

\* dict.get(key, default) on a mapping
Get(q, key, default) ==
    IF HasKey(q, key)
    THEN q.m[CHOOSE i \in 1..Len(q.m) : q.m[i].k = key].v
    ELSE default

\* Python truth value: None, False, 0, "", [] and {} are false
Truthy(v) ==
    CASE v.t = "null" -> FALSE
      [] v.t = "num"  -> v.n # 0
      [] v.t = "bool" -> v.n = 1
      [] v.t = "str"  -> Len(v.s) > 0
      [] v.t = "list" -> Len(v.l) > 0
      [] v.t = "map"  -> Len(v.m) > 0

\* iter(v) succeeds on lists, strings and mappings; TypeError otherwise
Iterable(v) == v.t \in {"list", "str", "map"}

\* What a for loop over v yields: the elements of a list, the characters of
\* a string, the keys of a mapping (a key is one token of text).
IterItems(v) ==
    CASE v.t = "list" -> v.l
      [] v.t = "str"  -> [i \in 1..Len(v.s) |-> Str(<<v.s[i]>>)]
      [] v.t = "map"  -> [i \in 1..Len(v.m) |-> Str(<<v.m[i].k>>)]
      [] OTHER        -> <<>>

----------------------------------------------------------------------------
(* Text helpers *)

RECURSIVE Flatten(_)
Flatten(ss) == IF ss = <<>> THEN <<>> ELSE Head(ss) \o Flatten(Tail(ss))

\* sep.join(parts)
RECURSIVE Join(_, _)
Join(sep, parts) ==
    IF parts = <<>> THEN <<>>
    ELSE IF Len(parts) = 1 THEN parts[1]
    ELSE parts[1] \o sep \o Join(sep, Tail(parts))

\* text.replace(old, new) for a one-character old
Replace(text, old, new) ==
    Flatten([i \in 1..Len(text) |-> IF text[i] = old THEN new ELSE <<text[i]>>])

Digit(k) == <<"0", "1", "2", "3", "4", "5", "6", "7", "8", "9">>[k + 1]

\* repr(v): a string is put in single quotes with its backslashes doubled
\* (no string of the model holds a single quote or a control character)
RECURSIVE PyRepr(_)
PyRepr(v) ==
    CASE v.t = "null" -> <<"N", "o", "n", "e">>
      [] v.t = "num"  -> <<Digit(v.n)>>
      [] v.t = "bool" -> IF v.n = 1 THEN <<"T", "r", "u", "e">>
                                    ELSE <<"F", "a", "l", "s", "e">>
      [] v.t = "str"  -> <<"'">> \o Replace(v.s, "\\", <<"\\", "\\">>) \o <<"'">>
      [] v.t = "list" -> <<"[">> \o Join(<<",", " ">>,
                             [i \in 1..Len(v.l) |-> PyRepr(v.l[i])]) \o <<"]">>
      [] v.t = "map"  -> <<"{">> \o Join(<<",", " ">>,
                             [i \in 1..Len(v.m) |->
                                 <<"'", v.m[i].k, "'", ":", " ">> \o PyRepr(v.m[i].v)])
                         \o <<"}">>

\* str(v): a string is itself, anything else is its repr
PyStr(v) == IF v.t = "str" THEN v.s ELSE PyRepr(v)

----------------------------------------------------------------------------
(* format_pg_array_correctly *)

BSeq(S, k) == UNION {[1..j -> S] : j \in 0..k}

Pending == [ok |-> FALSE, text |-> <<>>, err |-> "pending"]
Ok(text) == [ok |-> TRUE, text |-> text, err |-> "none"]
Raise(kind) == [ok |-> FALSE, text |-> <<>>, err |-> kind]

\* a plausible slip: the quotes escaped before the backslashes
EscapeQuoteFirst(item_str) ==
    Replace(Replace(item_str, "\"", <<"\\", "\"">>), "\\", <<"\\", "\\">>)

\* item_str.replace('\\', '\\\\').replace('"', '\\"')
EscapeItem(item_str) ==
    Replace(Replace(item_str, "\\", <<"\\", "\\">>), "\"", <<"\\", "\"">>)

\* a plausible slip: the element appended without its quotes
FormatItemBare(item) == EscapeItem(PyStr(item))

\* one iteration of the loop: str(item), escape, wrap in double quotes
FormatItem(item) == <<"\"">> \o EscapeItem(PyStr(item)) \o <<"\"">>

format_pg_array_correctly(py_list) ==
    IF ~Truthy(py_list) THEN Ok(<<"{", "}">>)
    ELSE IF ~Iterable(py_list) THEN Raise("TypeError")
    ELSE Ok(<<"{">>
            \o Join(<<",">>, [i \in 1..Len(IterItems(py_list)) |->
                                  FormatItem(IterItems(py_list)[i])])
            \o <<"}">>)

----------------------------------------------------------------------------
(* json.dumps, with its default separators ", " and ": " *)

RECURSIVE JsonDumps(_)
JsonDumps(v) ==
    CASE v.t = "null" -> <<"n", "u", "l", "l">>
      [] v.t = "num"  -> <<Digit(v.n)>>
      [] v.t = "bool" -> IF v.n = 1 THEN <<"t", "r", "u", "e">>
                                    ELSE <<"f", "a", "l", "s", "e">>
      [] v.t = "str"  -> <<"\"">>
                         \o Flatten([i \in 1..Len(v.s) |->
                                IF v.s[i] \in {"\\", "\""} THEN <<"\\", v.s[i]>>
                                                          ELSE <<v.s[i]>>])
                         \o <<"\"">>
      [] v.t = "list" -> <<"[">> \o Join(<<",", " ">>,
                             [i \in 1..Len(v.l) |-> JsonDumps(v.l[i])]) \o <<"]">>
      [] v.t = "map"  -> <<"{">> \o Join(<<",", " ">>,
                             [i \in 1..Len(v.m) |->
                                 <<"\"", v.m[i].k, "\"", ":", " ">> \o JsonDumps(v.m[i].v)])
                         \o <<"}">>

----------------------------------------------------------------------------
(* The readers the texts are written for: a JSON parser for the            *)
(* explanation column and the array-literal parser of the database for     *)
(* the array columns.  Neither is code of the converter.                   *)

PFail == [ok |-> FALSE, val |-> Null, rest |-> <<>>]
POk(v, rest) == [ok |-> TRUE, val |-> v, rest |-> rest]

RECURSIVE SkipWs(_)
SkipWs(text) ==
    IF text # <<>> /\ Head(text) = " " THEN SkipWs(Tail(text)) ELSE text

StartsWith(text, prefix) ==
    /\ Len(text) >= Len(prefix)
    /\ SubSeq(text, 1, Len(prefix)) = prefix

Drop(text, k) == SubSeq(text, k + 1, Len(text))

DigitValue(c) == CHOOSE k \in 0..9 : Digit(k) = c
IsDigit(c) == \E k \in 0..9 : Digit(k) = c

\* the characters of a quoted string up to its closing quote, \x read as x
RECURSIVE ReadQuoted(_, _)
ReadQuoted(text, acc) ==
    IF text = <<>> THEN [ok |-> FALSE, chars |-> <<>>, rest |-> <<>>]
    ELSE IF Head(text) = "\"" THEN [ok |-> TRUE, chars |-> acc, rest |-> Tail(text)]
    ELSE IF Head(text) = "\\"
         THEN IF Len(text) < 2 THEN [ok |-> FALSE, chars |-> <<>>, rest |-> <<>>]
              ELSE ReadQuoted(Drop(text, 2), Append(acc, text[2]))
    ELSE ReadQuoted(Tail(text), Append(acc, Head(text)))

RECURSIVE ParseValue(_)
RECURSIVE ParseElems(_, _)
RECURSIVE ParseMembers(_, _)

ParseValue(text0) ==
    LET text == SkipWs(text0) IN
    IF text = <<>> THEN PFail
    ELSE IF StartsWith(text, <<"n", "u", "l", "l">>) THEN POk(Null, Drop(text, 4))
    ELSE IF StartsWith(text, <<"t", "r", "u", "e">>) THEN POk(Bool(TRUE), Drop(text, 4))
    ELSE IF StartsWith(text, <<"f", "a", "l", "s", "e">>) THEN POk(Bool(FALSE), Drop(text, 5))
    ELSE IF IsDigit(Head(text)) THEN POk(Num(DigitValue(Head(text))), Tail(text))
    ELSE IF Head(text) = "\""
         THEN LET r == ReadQuoted(Tail(text), <<>>) IN
              IF r.ok THEN POk(Str(r.chars), r.rest) ELSE PFail
    ELSE IF Head(text) = "["
         THEN LET body == SkipWs(Tail(text)) IN
              IF body # <<>> /\ Head(body) = "]" THEN POk(EmptyList, Tail(body))
              ELSE ParseElems(body, <<>>)
    ELSE IF Head(text) = "{"
         THEN LET body == SkipWs(Tail(text)) IN
              IF body # <<>> /\ Head(body) = "}" THEN POk(EmptyMap, Tail(body))
              ELSE ParseMembers(body, <<>>)
    ELSE PFail

ParseElems(text, acc) ==
    LET r == ParseValue(text)
        after == SkipWs(r.rest)
    IN  IF ~r.ok \/ after = <<>> THEN PFail
        ELSE IF Head(after) = "," THEN ParseElems(Tail(after), Append(acc, r.val))
        ELSE IF Head(after) = "]" THEN POk(List(Append(acc, r.val)), Tail(after))
        ELSE PFail

ParseMembers(text0, acc) ==
    LET text == SkipWs(text0) IN
    IF text = <<>> \/ Head(text) # "\"" THEN PFail
    ELSE LET key == ReadQuoted(Tail(text), <<>>)
             colon == SkipWs(key.rest)
         IN  IF ~key.ok \/ Len(key.chars) # 1 \/ colon = <<>> \/ Head(colon) # ":"
             THEN PFail
             ELSE LET r == ParseValue(Tail(colon))
                      after == SkipWs(r.rest)
                      pairs == Append(acc, KV(key.chars[1], r.val))
                  IN  IF ~r.ok \/ after = <<>> THEN PFail
                      ELSE IF Head(after) = "," THEN ParseMembers(Tail(after), pairs)
                      ELSE IF Head(after) = "}" THEN POk(Map(pairs), Tail(after))
                      ELSE PFail

\* json.loads: one value and nothing after it
JsonLoads(text) ==
    LET r == ParseValue(text) IN
    IF r.ok /\ SkipWs(r.rest) = <<>> THEN r ELSE PFail

AFail == [ok |-> FALSE, elems |-> <<>>]

\* an unquoted element runs to the next comma or closing brace
RECURSIVE ReadBare(_, _)
ReadBare(text, acc) ==
    IF text = <<>> THEN [ok |-> FALSE, chars |-> <<>>, rest |-> <<>>]
    ELSE IF Head(text) \in {",", "}"} THEN [ok |-> acc # <<>>, chars |-> acc, rest |-> text]
    ELSE IF Head(text) \in {"{", "\""} THEN [ok |-> FALSE, chars |-> <<>>, rest |-> <<>>]
    ELSE IF Head(text) = "\\"
         THEN IF Len(text) < 2 THEN [ok |-> FALSE, chars |-> <<>>, rest |-> <<>>]
              ELSE ReadBare(Drop(text, 2), Append(acc, text[2]))
    ELSE ReadBare(Tail(text), Append(acc, Head(text)))

\* the elements after the opening brace: split on the commas outside quotes,
\* the enclosing quotes stripped, \\ read as \ and \" as "
RECURSIVE PgElems(_, _)
PgElems(text, acc) ==
    IF text = <<>> THEN AFail
    ELSE LET r == IF Head(text) = "\"" THEN ReadQuoted(Tail(text), <<>>)
                                       ELSE ReadBare(text, <<>>)
         IN  IF ~r.ok \/ r.rest = <<>> THEN AFail
             ELSE IF Head(r.rest) = "," THEN PgElems(Tail(r.rest), Append(acc, r.chars))
             ELSE IF r.rest = <<"}">> THEN [ok |-> TRUE, elems |-> Append(acc, r.chars)]
             ELSE AFail

PgParse(text) ==
    IF text = <<"{", "}">> THEN [ok |-> TRUE, elems |-> <<>>]
    ELSE IF text = <<>> \/ Head(text) # "{" THEN AFail
    ELSE PgElems(Tail(text), <<>>)

\* The reference encoder: one pass over an element, a backslash in front
\* of every backslash and of every double quote of the element.
RECURSIVE RefEscape(_)
RefEscape(chars) ==
    IF chars = <<>> THEN <<>>
    ELSE (IF Head(chars) \in {"\\", "\""} THEN <<"\\", Head(chars)>> ELSE <<Head(chars)>>)
         \o RefEscape(Tail(chars))

RECURSIVE RefElems(_)
RefElems(elems) ==
    IF elems = <<>> THEN <<>>
    ELSE <<"\"">> \o RefEscape(Head(elems).s) \o <<"\"">>
         \o (IF Len(elems) > 1 THEN <<",">> ELSE <<>>) \o RefElems(Tail(elems))

RefEncode(v) ==
    IF v.t = "null" \/ v.l = <<>> THEN <<"{", "}">>
    ELSE <<"{">> \o RefElems(v.l) \o <<"}">>

----------------------------------------------------------------------------
(* The rows of the output file.  A row is the dictionary handed to the csv *)
(* writer, its values in header order, before the writer quotes them.      *)

header ==
    <<"v1_id", "subject", "topic", "subTopic", "examName", "examYear", "examDateShift",
      "difficulty", "questionType", "question", "question_hi",
      "options", "options_hi", "correct", "tags", "explanation">>

HeaderRow == [kind |-> "header", names |-> header, vals |-> <<>>]
DataRow(vals) == [kind |-> "data", names |-> <<>>, vals |-> vals]
\* what the output file held before the run, when it existed
PriorRow == [kind |-> "prior", names |-> <<>>, vals |-> <<>>]

\* the value of a data row under a column of the header
Field(row, name) == row.vals[CHOOSE i \in 1..Len(header) : header[i] = name]

----------------------------------------------------------------------------
(* The projection of one record: the body of the inner try *)

NestedKeys == {"classification", "sourceInfo", "properties"}
ArrayKeys == {"options", "options_hi", "tags"}

\* a plausible slip: the key looked up with no default
NestedNoDefault(q, key) == Get(q, key, Null)

\* a plausible slip: a null under the key taken for a missing key
NestedOrEmpty(q, key) ==
    IF Get(q, key, EmptyMap) = Null THEN EmptyMap ELSE Get(q, key, EmptyMap)

\* q.get('classification', {}) and its like
Nested(q, key) == Get(q, key, EmptyMap)

\* format_pg_array_correctly(q.get('options', [])) and its like
ArrayField(q, key) == format_pg_array_correctly(Get(q, key, EmptyList))

\* json.dumps(q.get('explanation', {}))
explanation_jsonb(q) == JsonDumps(Get(q, "explanation", EmptyMap))

RowOk(vals) == [ok |-> TRUE, vals |-> vals, err |-> "none"]
RowRaise(kind) == [ok |-> FALSE, vals |-> <<>>, err |-> kind]

\* The statements of the try block in order: a record that is no mapping
\* has no get; the three encoder calls; json.dumps; then the dictionary,
\* whose nested lookups need a mapping under each nested key.
ProjectRecord(q) ==
    IF ~IsMap(q) THEN RowRaise("AttributeError")
    ELSE IF \E key \in ArrayKeys : ~ArrayField(q, key).ok THEN RowRaise("TypeError")
    ELSE IF \E key \in NestedKeys : ~IsMap(Nested(q, key)) THEN RowRaise("AttributeError")
    ELSE RowOk(<<
        Get(q, "id", Null),
        Get(Nested(q, "classification"), "subject", Null),
        Get(Nested(q, "classification"), "topic", Null),
        Get(Nested(q, "classification"), "subTopic", Null),
        Get(Nested(q, "sourceInfo"), "examName", Null),
        Get(Nested(q, "sourceInfo"), "examYear", Null),
        Get(Nested(q, "sourceInfo"), "examDateShift", Null),
        Get(Nested(q, "properties"), "difficulty", Null),
        Get(Nested(q, "properties"), "questionType", Null),
        Get(q, "question", Null),
        Get(q, "question_hi", Null),
        Str(ArrayField(q, "options").text),
        Str(ArrayField(q, "options_hi").text),
        Get(q, "correct", Null),
        Str(ArrayField(q, "tags").text),
        Str(explanation_jsonb(q)) >>)

----------------------------------------------------------------------------
(* Console lines *)

Line(msg, id, k, err) == [msg |-> msg, id |-> id, count |-> k, err |-> err]

StartLine == Line("starting", Null, 0, "none")
NotFoundLine == Line("not found", Null, 0, "none")
UnexpectedLine(err) == Line("unexpected error", Null, 0, err)
RecordErrorLine(id, err) == Line("error processing question", id, 0, err)
CompletedLine(k) == Line("successfully converted", Null, k, "none")

----------------------------------------------------------------------------
(* The inputs of a run *)

\* a key with this value is left out of the record
Missing == [t |-> "missing", n |-> 0, s |-> <<>>, l |-> <<>>, m |-> <<>>]

Present(pairs) == Map(SelectSeq(pairs, LAMBDA p : p.v # Missing))

Classification == Map(<<KV("subject", Str(<<"h">>)), KV("topic", Str(<<"t">>))>>)
SourceInfo == Map(<<KV("examName", Str(<<"e">>)), KV("examYear", Num(7))>>)
Properties == Map(<<KV("difficulty", Str(<<"d">>)), KV("questionType", Str(<<"m">>))>>)
Options == List(<<Str(<<"a", "\"">>), Str(<<"\\", ",">>)>>)
Explanation == Map(<<KV("x", Num(1))>>)

Question(id, cls, src, prop, opts, expl) ==
    Present(<<KV("id", id), KV("classification", cls), KV("sourceInfo", src),
              KV("properties", prop), KV("question", Str(<<"q">>)),
              KV("options", opts), KV("correct", Num(2)),
              KV("tags", List(<<Str(<<"g">>)>>)), KV("explanation", expl)>>)

\* every subset of the nested mappings missing
NestedShapes ==
    { Question(Num(1), cls, src, prop, Options, Explanation) :
        cls \in {Missing, Classification}, src \in {Missing, SourceInfo},
        prop \in {Missing, Properties} }

\* a nested key present with a value that is no mapping
NonMappingShapes ==
    { Question(Num(2), v, SourceInfo, Properties, Options, Explanation) :
        v \in {Null, Str(<<"a">>)} }
    \cup { Question(Num(3), Missing, v, Properties, Options, Explanation) :
        v \in {Null, EmptyList} }
    \cup { Question(Missing, Classification, Missing, v, Options, Explanation) :
        v \in {Null, Num(4)} }

ExplanationShapes ==
    { Question(Num(5), Classification, SourceInfo, Properties, Options, e) :
        e \in { Missing, Null, EmptyMap,
                Map(<<KV("x", Map(<<KV("y", Str(<<"a", "\"">>))>>)), KV("z", Null)>>) } }

OptionsShapes ==
    { Question(Num(6), Classification, SourceInfo, Properties, o, Explanation) :
        o \in {Missing, Null, Num(5), Str(<<"a", "b">>)} }

\* records that are no mapping
OtherShapes == {Null, Num(5), Str(<<"a">>), EmptyList}

RecordShapes ==
    NestedShapes \cup NonMappingShapes \cup ExplanationShapes
    \cup OptionsShapes \cup OtherShapes

\* the documents json.load can return: the arrays of records, and one
\* document of every other type
Docs ==
    {List(recs) : recs \in BSeq(RecordShapes, MaxRecords)}
    \cup {Null, Num(5), Str(<<"a", "b">>), Map(<<KV("id", Num(1))>>)}

InFiles ==
    { [exists |-> FALSE, valid |-> FALSE, doc |-> Null],
      [exists |-> TRUE, valid |-> FALSE, doc |-> Null] }
    \cup {[exists |-> TRUE, valid |-> TRUE, doc |-> d] : d \in Docs}

OutFiles ==
    { [exists |-> FALSE, rows |-> <<>>],
      [exists |-> TRUE, rows |-> <<PriorRow>>] }

----------------------------------------------------------------------------
(* The script *)

Init ==
    /\ inFile \in InFiles
    /\ outFile \in OutFiles
    /\ console = <<>>
    /\ pc = "start"
    /\ questions_data = Null
    /\ items = <<>>
    /\ idx = 0
    /\ count = 0
    /\ f_in = "none"
    /\ f_out = "none"
    /\ encIn = Null
    /\ encOut = Pending
    /\ encParsed = AFail
    /\ encPc = "idle"

Closed(f) == IF f = "open" THEN "closed" ELSE f

\* an exception leaves the with block, which closes the files it opened,
\* and reaches the handlers of the outer try
Fatal(line) ==
    /\ console' = Append(console, line)
    /\ f_in' = Closed(f_in)
    /\ f_out' = Closed(f_out)
    /\ pc' = "done"

\* print("Starting conversion ...")
Start ==
    /\ pc = "start"
    /\ console' = Append(console, StartLine)
    /\ pc' = "open_in"
    /\ UNCHANGED <<inFile, outFile, questions_data, items, idx, count, f_in, f_out, encVars>>

\* a plausible slip: the output file opened, and truncated, first
OpenInputAfterOutput ==
    /\ pc = "open_in"
    /\ IF inFile.exists
       THEN /\ f_in' = "open"
            /\ pc' = "open_out"
            /\ UNCHANGED <<console, outFile, f_out>>
       ELSE /\ outFile' = [exists |-> TRUE, rows |-> <<>>]
            /\ console' = Append(console, NotFoundLine)
            /\ pc' = "done"
            /\ UNCHANGED <<f_in, f_out>>
    /\ UNCHANGED <<inFile, questions_data, items, idx, count, encVars>>

\* open(JSON_FILE_PATH, 'r'): FileNotFoundError when the file is missing,
\* another OSError when it cannot be read
OpenInput ==
    /\ pc = "open_in"
    /\ \/ /\ ~inFile.exists
          /\ Fatal(NotFoundLine)
       \/ /\ inFile.exists
          /\ Fatal(UnexpectedLine("OSError"))
       \/ /\ inFile.exists
          /\ f_in' = "open"
          /\ pc' = "open_out"
          /\ UNCHANGED <<console, f_out>>
    /\ UNCHANGED <<inFile, outFile, questions_data, items, idx, count, encVars>>

\* open(CSV_FILE_PATH, 'w'): creates or truncates the file; an OSError, of
\* which FileNotFoundError is one, when it cannot
OpenOutput ==
    /\ pc = "open_out"
    /\ \/ /\ outFile' = [exists |-> TRUE, rows |-> <<>>]
          /\ f_out' = "open"
          /\ pc' = "load"
          /\ UNCHANGED <<console, f_in>>
       \/ /\ Fatal(UnexpectedLine("OSError"))
          /\ UNCHANGED outFile
       \/ /\ Fatal(NotFoundLine)
          /\ UNCHANGED outFile
    /\ UNCHANGED <<inFile, questions_data, items, idx, count, encVars>>

\* questions_data = json.load(f_in)
Load ==
    /\ pc = "load"
    /\ IF inFile.valid
       THEN /\ questions_data' = inFile.doc
            /\ pc' = "header"
            /\ UNCHANGED <<console, f_in, f_out>>
       ELSE /\ Fatal(UnexpectedLine("JSONDecodeError"))
            /\ UNCHANGED questions_data
    /\ UNCHANGED <<inFile, outFile, items, idx, count, encVars>>

\* a plausible slip: no header written
WriteHeaderSkipped ==
    /\ pc = "header"
    /\ count' = 0
    /\ pc' = "iter"
    /\ UNCHANGED <<inFile, outFile, console, questions_data, items, idx, f_in, f_out, encVars>>

\* writer = csv.DictWriter(...); writer.writeheader(); count = 0
WriteHeader ==
    /\ pc = "header"
    /\ outFile' = [outFile EXCEPT !.rows = Append(@, HeaderRow)]
    /\ count' = 0
    /\ pc' = "iter"
    /\ UNCHANGED <<inFile, console, questions_data, items, idx, f_in, f_out, encVars>>

\* for q in questions_data: TypeError when the document cannot be iterated
StartLoop ==
    /\ pc = "iter"
    /\ IF Iterable(questions_data)
       THEN /\ items' = IterItems(questions_data)
            /\ idx' = 0
            /\ pc' = "loop"
            /\ UNCHANGED <<console, f_in, f_out>>
       ELSE /\ Fatal(UnexpectedLine("TypeError"))
            /\ UNCHANGED <<items, idx>>
    /\ UNCHANGED <<inFile, outFile, questions_data, count, encVars>>

\* One iteration: the try block and its handler.  The handler prints
\* q.get('id'), which itself raises when q is no mapping; that exception
\* leaves the loop and the with block.
ProcessRecord ==
    /\ pc = "loop"
    /\ idx < Len(items)
    /\ LET q == items[idx + 1]
           row == ProjectRecord(q)
       IN  IF row.ok
           THEN /\ outFile' = [outFile EXCEPT !.rows = Append(@, DataRow(row.vals))]
                /\ count' = count + 1
                /\ idx' = idx + 1
                /\ UNCHANGED <<console, pc, f_in, f_out>>
           ELSE IF IsMap(q)
           THEN /\ console' = Append(console, RecordErrorLine(Get(q, "id", Null), row.err))
                /\ idx' = idx + 1
                /\ UNCHANGED <<outFile, count, pc, f_in, f_out>>
           ELSE /\ Fatal(UnexpectedLine("AttributeError"))
                /\ UNCHANGED <<outFile, count, idx>>
    /\ UNCHANGED <<inFile, questions_data, items, encVars>>

\* the loop is exhausted: the with block closes both files, then
\* print("Successfully converted {count} questions ...")
Finish ==
    /\ pc = "loop"
    /\ idx = Len(items)
    /\ console' = Append(console, CompletedLine(count))
    /\ f_in' = "closed"
    /\ f_out' = "closed"
    /\ pc' = "done"
    /\ UNCHANGED <<inFile, outFile, questions_data, items, idx, count, encVars>>

Next ==
    \/ Start
    \/ OpenInput
    \/ OpenOutput
    \/ Load
    \/ WriteHeader
    \/ StartLoop
    \/ ProcessRecord
    \/ Finish

Spec == Init /\ [][Next]_vars

----------------------------------------------------------------------------
(* A lone call of the encoder, and the database reading its result back *)

\* the sequences of at most k strings that hold at most c characters together
RECURSIVE StringSeqs(_, _)
StringSeqs(k, c) ==
    IF k = 0 THEN {<<>>}
    ELSE {<<>>} \cup UNION { { <<Str(chars)>> \o rest : rest \in StringSeqs(k - 1, c - Len(chars)) } :
                              chars \in BSeq(Alphabet, c) }

\* the sequences of strings, as lists
StringLists == {List(elems) : elems \in StringSeqs(MaxLen, MaxChars)}

\* the two elements a"b and c\d
ExampleList == List(<<Str(<<"a", "\"", "b">>), Str(<<"c", "\\", "d">>)>>)

\* {"a\"b","c\\d"}
ExampleText ==
    <<"{", "\"", "a", "\\", "\"", "b", "\"", ",",
           "\"", "c", "\\", "\\", "d", "\"", "}">>

\* one value of every other JSON type, false and true
OtherInputs ==
    { Null, Num(0), Num(5), Bool(FALSE), Bool(TRUE),
      Str(<<"a", ",">>), EmptyMap, Map(<<KV("x", Num(1))>>),
      List(<<Num(1), Null>>), List(<<Bool(TRUE), List(<<Str(<<"a">>)>>)>>) }

EncInputs == StringLists \cup {ExampleList} \cup OtherInputs

IsStringList(v) == v.t = "list" /\ \A i \in 1..Len(v.l) : v.l[i].t = "str"

InitEnc ==
    /\ encIn \in EncInputs
    /\ encOut = Pending
    /\ encParsed = AFail
    /\ encPc = "call"
    /\ inFile = [exists |-> FALSE, valid |-> FALSE, doc |-> Null]
    /\ outFile = [exists |-> FALSE, rows |-> <<>>]
    /\ console = <<>>
    /\ pc = "idle"
    /\ questions_data = Null
    /\ items = <<>>
    /\ idx = 0
    /\ count = 0
    /\ f_in = "none"
    /\ f_out = "none"

EncCall ==
    /\ encPc = "call"
    /\ encOut' = format_pg_array_correctly(encIn)
    /\ encPc' = "returned"
    /\ UNCHANGED <<encIn, encParsed, driverVars>>

EncParse ==
    /\ encPc = "returned"
    /\ encOut.ok
    /\ encParsed' = PgParse(encOut.text)
    /\ encPc' = "parsed"
    /\ UNCHANGED <<encIn, encOut, driverVars>>

NextEnc == EncCall \/ EncParse

SpecEnc == InitEnc /\ [][NextEnc]_vars

----------------------------------------------------------------------------
(* Claims about the encoder *)

BraceDelimited(text) ==
    Len(text) >= 2 /\ Head(text) = "{" /\ text[Len(text)] = "}"

\* C5: the encoder has no error outcome: whatever the type of its input
\* (null, sequence, string, mapping, number, boolean) it returns a
\* brace-delimited text and never raises.
C5_EncoderNeverRaises ==
    encPc \in {"returned", "parsed"} => encOut.ok /\ BraceDelimited(encOut.text)

----------------------------------------------------------------------------
(* Claims about a run *)

LastLine == console[Len(console)]
LastRow == outFile.rows[Len(outFile.rows)]

\* the record the next iteration handles
Current == items[idx + 1]
AtRecord == pc = "loop" /\ idx < Len(items)

\* the rows of the records of recs whose projection does not raise
RECURSIVE RowsOf(_)
RowsOf(recs) ==
    IF recs = <<>> THEN <<>>
    ELSE (IF ProjectRecord(Head(recs)).ok
          THEN <<DataRow(ProjectRecord(Head(recs)).vals)>> ELSE <<>>)
         \o RowsOf(Tail(recs))

\* the positions of the records whose projection raises
Failed == {k \in 1..Len(items) : ~ProjectRecord(items[k]).ok}

\* C1: a failure while projecting a record, whatever the record is, never
\* aborts the run: the error is reported for that record, the loop goes on
\* to the following records, and the run ends with the completion message.
C1_RecordFailureNeverAborts ==
    (pc = "done" /\ Failed # {}) =>
        /\ LastLine = CompletedLine(count)
        /\ idx = Len(items)
        /\ Cardinality({i \in 1..Len(console) :
                           console[i].msg = "error processing question"})
             = Cardinality(Failed)

\* C2: when the run over an array is over, the data rows are the rows of
\* the records whose projection does not raise, one each, in input order.
C2_RowsAreTheGoodRecords ==
    (pc = "done" /\ f_out = "closed" /\ inFile.valid /\ inFile.doc.t = "list") =>
        outFile.rows = <<HeaderRow>> \o RowsOf(inFile.doc.l)

\* C3 as stated: in every run that opens the output file, the first row of
\* the file is the header, and no other row is.
C3_HeaderWheneverOpened ==
    (pc = "done" /\ f_out = "closed") =>
        /\ outFile.rows # <<>>
        /\ outFile.rows[1] = HeaderRow
        /\ \A i \in 2..Len(outFile.rows) : outFile.rows[i].kind = "data"

\* C3 amended: in every run that opens the output file and parses the input
\* document, the first row of the file is the header, from the moment the
\* first record is iterated and also when the array is empty, and every
\* later row is a data row.
C3_HeaderWhenParsed ==
    (pc \in {"iter", "loop", "done"} /\ f_out # "none" /\ inFile.valid) =>
        /\ outFile.rows # <<>>
        /\ outFile.rows[1] = HeaderRow
        /\ \A i \in 2..Len(outFile.rows) : outFile.rows[i].kind = "data"

\* a finished run over the empty array: the header and nothing else
C3_Witness ==
    /\ pc = "done"
    /\ inFile.valid
    /\ inFile.doc = EmptyList
    /\ outFile.rows = <<HeaderRow>>
    /\ LastLine = CompletedLine(0)

\* C4: the explanation field of the row of a mapping record is the text {}
\* when the key is missing or its value is null, and a JSON text that
\* parses back to the same mapping when the value is a mapping.
C4_ExplanationText ==
    (pc \in {"loop", "done"} /\ idx >= 1 /\ ProjectRecord(items[idx]).ok) =>
        LET text == Field(LastRow, "explanation").s
            expl == Get(items[idx], "explanation", Missing)
        IN  /\ (expl \in {Missing, Null} => text = <<"{", "}">>)
            /\ (IsMap(expl) => JsonLoads(text).ok /\ JsonLoads(text).val = expl)

\* the array fields of q on which the encoder raises
BadArrayKeys(q) ==
    {key \in ArrayKeys :
        HasKey(q, key) /\ Truthy(Get(q, key, Null)) /\ ~Iterable(Get(q, key, Null))}

\* the nested keys of q that are present with a value that is no mapping
NonMappingKeys(q) ==
    {key \in NestedKeys : HasKey(q, key) /\ ~IsMap(Get(q, key, Null))}

SubFields(key) ==
    CASE key = "classification" -> {"subject", "topic", "subTopic"}
      [] key = "sourceInfo"     -> {"examName", "examYear", "examDateShift"}
      [] key = "properties"     -> {"difficulty", "questionType"}

C9_InputNotFound ==
    [][ ~inFile.exists =>
            /\ outFile' = outFile
            /\ f_out' = "none"
            /\ (pc = "open_in" =>
                   /\ pc' = "done"
                   /\ console' = <<StartLine, NotFoundLine>>) ]_vars

\* the run ended on the not-found message with the old output file intact
C9_Witness ==
    /\ pc = "done"
    /\ ~inFile.exists
    /\ outFile = [exists |-> TRUE, rows |-> <<PriorRow>>]
    /\ console = <<StartLine, NotFoundLine>>

\* C10: a mapping record with classification, sourceInfo or properties
\* present and holding something that is no mapping (null, say) raises: the
\* default is not used, no row is written for it, the error is reported
\* with the record's id, and the loop goes on to the next record.
C10_NonMappingNestedIsSkipped ==
    [][ (AtRecord /\ IsMap(Current) /\ NonMappingKeys(Current) # {}) =>
            /\ outFile' = outFile
            /\ count' = count
            /\ Len(console') = Len(console) + 1
            /\ console'[Len(console')].msg = "error processing question"
            /\ console'[Len(console')].id = Get(Current, "id", Null)
            /\ idx' = idx + 1
            /\ pc' = "loop" ]_vars

\* a record with a null classification was skipped and the record after it
\* was written
C10_Witness ==
    /\ pc = "done"
    /\ Len(items) = 2
    /\ IsMap(items[1])
    /\ HasKey(items[1], "classification")
    /\ Get(items[1], "classification", Missing) = Null
    /\ console = <<StartLine, RecordErrorLine(Num(2), "AttributeError"), CompletedLine(1)>>
    /\ outFile.rows = <<HeaderRow, DataRow(ProjectRecord(items[2]).vals)>>

====
